---- MODULE Spec2Model ----
(***************************************************************************)
(* Onboarding state store of the dealer dashboard                          *)
(* (src/components/dashboard/onboarding-dashboard.tsx, OnboardingDashboard)*)
(*                                                                         *)
(* State: the three useState cells of the component (dealers,              *)
(* selectedDealerId, activeTabIndex).  Operations: the three setters the   *)
(* view calls (setSelectedDealerId, setActiveTabIndex) and the two         *)
(* mutating handlers (markTaskComplete, advanceStage).  The ids handed to  *)
(* the operations are strings; they are drawn from the ids of the seed     *)
(* plus one id that names no dealer / no task.                             *)
(*                                                                         *)
(* The seed (mockDealers) and the stage catalog (onboardingStages) are     *)
(* imported from "@/lib/mock-data", calculateStageDistribution from        *)
(* "@/lib/utils"; they are modelled from the specification.                *)
(*                                                                         *)
(* Spec applies every operation to the current list at once.  SpecBatch    *)
(* keeps the updaters handed to setDealers in a queue until the next       *)
(* render.                                                                 *)
(***************************************************************************)
EXTENDS Integers, Sequences, FiniteSets, TLC

VARIABLES dealers, selectedDealerId, activeTabIndex, advanceCalls, last,
          scenario, pending, expected, issued, flushed

vars == <<dealers, selectedDealerId, activeTabIndex, advanceCalls, last,
          scenario, pending, expected, issued, flushed>>

\* the state of the update queue of setDealers and its bookkeeping
batchVars == <<pending, expected, issued, flushed>>

----------------------------------------------------------------------------
(* Bounds *)

\* Number of advanceStage calls on one existing dealer that are explored.
MaxAdvance == 6

\* Number of mutations issued in a behaviour of the update-queue specification.
MaxIssued == 4

----------------------------------------------------------------------------
(* Reference data *)

\* onboardingStages: the fixed ordered catalog of stage keys.
StageKeys == <<"New", "Discovery", "Contracting", "Training", "Compliance", "Live">>

NumStages == Len(StageKeys)

\* stage.label of each catalog entry: display strings, kept apart from the keys.
StageLabels == <<"label:New", "label:Discovery", "label:Contracting",
                 "label:Training", "label:Compliance", "label:Live">>

\* The two tabs of the detail panel, "Execution queue" and "Notes".
NumTabs == 2

\* The value of selectedDealer?.id when there is no dealer at all.
Undefined == "undefined"

\* Ids handed to the operations that name no dealer and no task.
NoDealerId == "dealer-x"

NoTaskId == "task-x"

----------------------------------------------------------------------------
(* Helpers *)

Min(a, b) == IF a < b THEN a ELSE b

\* Array.prototype.slice(0, n)
Slice(s, n) == SubSeq(s, 1, Min(n, Len(s)))

\* tasks.every((task) => task.status === "completed")
AllCompleted(tasks) == \A k \in DOMAIN tasks : tasks[k].status = "completed"

\* dealers.find((dealer) => dealer.id === id), as a position; 0 when absent
FindDealer(ds, id) ==
  IF \E i \in DOMAIN ds : ds[i].id = id
  THEN CHOOSE i \in DOMAIN ds : ds[i].id = id /\ \A j \in 1..(i - 1) : ds[j].id # id
  ELSE 0

\* dealer.tasks position of the task with the given id; 0 when absent
FindTask(tasks, id) ==
  IF \E k \in DOMAIN tasks : tasks[k].id = id
  THEN CHOOSE k \in DOMAIN tasks : tasks[k].id = id /\ \A j \in 1..(k - 1) : tasks[j].id # id
  ELSE 0

\* onboardingStages.findIndex((stage) => stage.key === status), 1-based;
\* 0 stands for the -1 of a status that is no stage key
StageIndex(status) ==
  IF \E i \in DOMAIN StageKeys : StageKeys[i] = status
  THEN CHOOSE i \in DOMAIN StageKeys : StageKeys[i] = status
  ELSE 0

----------------------------------------------------------------------------
(* selectedDealer *)

\* position of dealers.find(id === selectedDealerId) ?? dealers[0]; 0 when
\* the list is empty (selectedDealer is undefined)
selectedDealer(ds, selId) ==
  IF FindDealer(ds, selId) # 0 THEN FindDealer(ds, selId)
  ELSE IF Len(ds) > 0 THEN 1 ELSE 0

\* selectedDealer?.id
selectedDealerIdOf(ds, selId) ==
  IF selectedDealer(ds, selId) = 0 THEN Undefined ELSE ds[selectedDealer(ds, selId)].id

----------------------------------------------------------------------------
(* Derived values of a render *)

\* the sum of a sequence of numbers
SumSeq(xs) ==
  LET sum[k \in 0..Len(xs)] == IF k = 0 THEN 0 ELSE sum[k - 1] + xs[k]
  IN  sum[Len(xs)]

\* calculateStageDistribution: the mean of the values rounded to the nearest
\* integer (Math.round: halves go up), 0 for no value
calculateStageDistribution(values) ==
  IF Len(values) = 0 THEN 0
  ELSE (2 * SumSeq(values) + Len(values)) \div (2 * Len(values))

\* variant: only the first dealer is taken into account
velocityOfFirst(ds) ==
  IF Len(ds) = 0 THEN 0 ELSE calculateStageDistribution(<<ds[1].progress>>)

\* calculateStageDistribution(dealers.map((dealer) => dealer.progress))
velocity(ds) ==
  calculateStageDistribution([i \in DOMAIN ds |-> ds[i].progress])

\* dealers.filter((dealer) => dealer.status === key)
FilterByStatus(ds, key) == SelectSeq(ds, LAMBDA dealer : dealer.status = key)

\* variant: the filter compares the status with the stage label
pipelineByStageLabel(ds) ==
  [s \in DOMAIN StageKeys |->
     [stage |-> StageKeys[s], dealers |-> FilterByStatus(ds, StageLabels[s])]]

\* onboardingStages.map((stage) => ({ stage, dealers: dealers.filter(...) }))
pipelineByStage(ds) ==
  [s \in DOMAIN StageKeys |->
     [stage |-> StageKeys[s], dealers |-> FilterByStatus(ds, StageKeys[s])]]

----------------------------------------------------------------------------
(* markTaskComplete *)

\* variant: a reset task goes back to pending
NextStatusToPending(status) ==
  IF status = "completed" THEN "pending" ELSE "completed"

\* nextStatus of the task that matches taskId
NextStatus(status) ==
  IF status = "completed" THEN "in-progress"
  ELSE IF status = "in-progress" THEN "completed"
  ELSE "completed"

\* dealer.tasks.map(...): the task with the given id gets nextStatus
ToggleTasks(tasks, taskId) ==
  [k \in DOMAIN tasks |->
     IF tasks[k].id # taskId THEN tasks[k]
     ELSE [tasks[k] EXCEPT !.status = NextStatus(tasks[k].status)]]

\* variant: the bonus is added without the clamp at 100
ToggleProgressUnclamped(progress, tasks) ==
  progress + (IF AllCompleted(tasks) THEN 8 ELSE 0)

\* variant: the bonus is taken back whenever the list is not fully completed
ToggleProgressClawback(progress, tasks) ==
  IF AllCompleted(tasks) THEN Min(100, progress + 8)
  ELSE IF progress < 8 THEN 0 ELSE progress - 8

\* variant: the bonus is given as soon as some task is completed
ToggleProgressSome(progress, tasks) ==
  Min(100, progress + (IF \E k \in DOMAIN tasks : tasks[k].status = "completed"
                       THEN 8 ELSE 0))

\* Math.min(100, dealer.progress + (tasks.every(completed) ? 8 : 0)),
\* tasks being the task list after the toggle
ToggleProgress(progress, tasks) ==
  Min(100, progress + (IF AllCompleted(tasks) THEN 8 ELSE 0))

\* variant: the bonus is given only by the call that completes the list
ToggleDealerOnce(dealer, taskId) ==
  [dealer EXCEPT !.tasks = ToggleTasks(dealer.tasks, taskId),
                 !.progress = IF AllCompleted(dealer.tasks) THEN dealer.progress
                              ELSE ToggleProgress(dealer.progress,
                                                  ToggleTasks(dealer.tasks, taskId))]

\* the object returned for the dealer that matches selectedDealer?.id
ToggleDealer(dealer, taskId) ==
  [dealer EXCEPT !.tasks = ToggleTasks(dealer.tasks, taskId),
                 !.progress = ToggleProgress(dealer.progress,
                                             ToggleTasks(dealer.tasks, taskId))]

\* variant: the updater does not compare the dealer id
markTaskCompleteAll(prev, targetId, taskId) ==
  [i \in DOMAIN prev |-> ToggleDealer(prev[i], taskId)]

\* the updater passed to setDealers by markTaskComplete(taskId); targetId is
\* selectedDealer?.id of the render the handler belongs to
markTaskComplete(prev, targetId, taskId) ==
  [i \in DOMAIN prev |->
     IF prev[i].id # targetId THEN prev[i] ELSE ToggleDealer(prev[i], taskId)]

----------------------------------------------------------------------------
(* advanceStage *)

\* variant: the catalog wraps around after the last stage
NextStageIndexWrap(currentIndex) ==
  IF currentIndex >= NumStages THEN 1 ELSE currentIndex + 1

\* variant: the step is two stages
NextStageIndexSkip(currentIndex) == Min(NumStages, currentIndex + 2)

\* Math.min(onboardingStages.length - 1, currentIndex + 1), 1-based
NextStageIndex(currentIndex) == Min(NumStages, currentIndex + 1)

\* variant: the stage increment is clamped at 100 like the task bonus
AdvanceProgressTo100(progress) == Min(100, progress + 12)

\* Math.min(95, dealer.progress + 12)
AdvanceProgress(progress) == Min(95, progress + 12)

\* `Advanced from ${dealer.status} to ${nextStage.label} with automated
\* readiness validation.`: a text is the sequence of its pieces
AdvanceNote(status, nextLabel) ==
  <<"Advanced from ", status, " to ", nextLabel, " with automated readiness validation.">>

\* variant: the note is appended instead of prepended
AdvanceNotesAppend(note, notes) == Slice(notes \o <<note>>, 4)

\* [note, ...dealer.notes].slice(0, 4)
AdvanceNotes(note, notes) == Slice(<<note>> \o notes, 4)

\* the object returned for the dealer that matches dealerId
AdvanceDealer(dealer) ==
  LET nextStage == NextStageIndex(StageIndex(dealer.status))
  IN  [dealer EXCEPT !.status = StageKeys[nextStage],
                     !.progress = AdvanceProgress(dealer.progress),
                     !.notes = AdvanceNotes(AdvanceNote(dealer.status, StageLabels[nextStage]),
                                            dealer.notes)]

\* variant: an id that matches no dealer falls back to the first dealer
advanceStageFallback(prev, dealerId) ==
  [i \in DOMAIN prev |->
     IF prev[i].id = dealerId \/ (i = 1 /\ \A j \in DOMAIN prev : prev[j].id # dealerId)
     THEN AdvanceDealer(prev[i]) ELSE prev[i]]

\* the updater passed to setDealers by advanceStage(dealerId)
advanceStage(prev, dealerId) ==
  [i \in DOMAIN prev |->
     IF prev[i].id # dealerId THEN prev[i] ELSE AdvanceDealer(prev[i])]

----------------------------------------------------------------------------
(* Seed *)

Task(id, status) == [id |-> id, status |-> status]

Dealer(id, status, progress, notes, tasks) ==
  [id |-> id, status |-> status, progress |-> progress, notes |-> notes, tasks |-> tasks]

\* mockDealers: a dealer at the first stage with two pending tasks, and a
\* dealer late in the pipeline that has three notes and no task.
SeedDealers ==
  { << Dealer("dealer-1", "New", 10, <<>>,
              <<Task("task-1", "pending"), Task("task-2", "pending")>>),
       Dealer("dealer-2", "Compliance", 88, << <<"note-a">>, <<"note-b">>, <<"note-c">> >>, <<>>) >> }

DealerIds == {"dealer-1", "dealer-2", NoDealerId}

TaskIds == {"task-1", "task-2", NoTaskId}

\* what the last operation was, which dealer and task it resolved to
\* (positions, 0 for none), the status it found there, and whether it came
\* right after the toggle that completed a dealer's task list
LastOp(op, d, t, from, ratchet) ==
  [op |-> op, dealer |-> d, task |-> t, from |-> from, ratchet |-> ratchet]

\* How far the behaviour has followed the sequence
\*   markTaskComplete("task-1") on dealer-1, markTaskComplete("task-2") on
\*   dealer-1, advanceStage("dealer-1")
\* from the seed: "seed" before the first mutation, then "toggled-1",
\* "toggled-2", "advanced" after each of its steps, "left" once any other
\* mutation was made.
ScenarioAfterToggle(sc, selId, taskId) ==
  IF sc = "seed" /\ selId = "dealer-1" /\ taskId = "task-1" THEN "toggled-1"
  ELSE IF sc = "toggled-1" /\ selId = "dealer-1" /\ taskId = "task-2" THEN "toggled-2"
  ELSE "left"

ScenarioAfterAdvance(sc, dealerId) ==
  IF sc = "toggled-2" /\ dealerId = "dealer-1" THEN "advanced" ELSE "left"

----------------------------------------------------------------------------
(* The component *)

Init ==
  /\ dealers \in SeedDealers
  /\ selectedDealerId = (IF Len(dealers) > 0 THEN dealers[1].id ELSE "")
  /\ activeTabIndex = 0
  /\ advanceCalls = [i \in DOMAIN dealers |-> 0]
  /\ last = LastOp("init", 0, 0, "", "none")
  /\ scenario = "seed"
  /\ pending = <<>>
  /\ expected = dealers
  /\ issued = 0
  /\ flushed = 0

\* onClick={() => setSelectedDealerId(dealer.id)}
SetSelectedDealerId(id) ==
  /\ selectedDealerId' = id
  /\ last' = LastOp("select", FindDealer(dealers, id), 0, "", "none")
  /\ UNCHANGED <<dealers, activeTabIndex, advanceCalls, scenario>>
  /\ UNCHANGED batchVars

\* <Tab.Group onChange={setActiveTabIndex}>
SetActiveTabIndex(index) ==
  /\ activeTabIndex' = index
  /\ last' = LastOp("tab", 0, 0, "", "none")
  /\ UNCHANGED <<dealers, selectedDealerId, advanceCalls, scenario>>
  /\ UNCHANGED batchVars

\* onClick={() => markTaskComplete(task.id)}
MarkTaskComplete(taskId) ==
  LET d == selectedDealer(dealers, selectedDealerId)
      t == IF d = 0 THEN 0 ELSE FindTask(dealers[d].tasks, taskId)
      next == markTaskComplete(dealers, selectedDealerIdOf(dealers, selectedDealerId), taskId)
      ratchet ==
        IF d # 0 /\ t # 0 /\ ~AllCompleted(dealers[d].tasks) /\ AllCompleted(next[d].tasks)
          THEN "granted"
        ELSE IF d # 0 /\ t # 0 /\ last.ratchet = "granted" /\ last.dealer = d
                /\ dealers[d].tasks[t].status = "completed"
          THEN "reverted"
        ELSE "none"
  IN  /\ dealers' = next
      /\ last' = LastOp("toggle", d, t,
                        IF t = 0 THEN "" ELSE dealers[d].tasks[t].status, ratchet)
      /\ scenario' = ScenarioAfterToggle(scenario, selectedDealerId, taskId)
      /\ UNCHANGED <<selectedDealerId, activeTabIndex, advanceCalls>>
      /\ UNCHANGED batchVars

\* onClick={... advanceStage(dealer.id)}
AdvanceStage(dealerId) ==
  LET d == FindDealer(dealers, dealerId)
  IN  /\ d # 0 => advanceCalls[d] < MaxAdvance
      /\ dealers' = advanceStage(dealers, dealerId)
      /\ advanceCalls' = IF d = 0 THEN advanceCalls
                         ELSE [advanceCalls EXCEPT ![d] = @ + 1]
      /\ last' = LastOp("advance", d, 0, IF d = 0 THEN "" ELSE dealers[d].status, "none")
      /\ scenario' = ScenarioAfterAdvance(scenario, dealerId)
      /\ UNCHANGED <<selectedDealerId, activeTabIndex>>
      /\ UNCHANGED batchVars

Next ==
  \/ \E id \in DealerIds : SetSelectedDealerId(id)
  \/ \E index \in 0..(NumTabs - 1) : SetActiveTabIndex(index)
  \/ \E taskId \in TaskIds : MarkTaskComplete(taskId)
  \/ \E dealerId \in DealerIds : AdvanceStage(dealerId)

Spec == Init /\ [][Next]_vars

TypeOK ==
  /\ selectedDealerId \in DealerIds
  /\ activeTabIndex \in 0..(NumTabs - 1)
  /\ \A i \in DOMAIN dealers : dealers[i].progress \in 0..100

----------------------------------------------------------------------------
(* The update queue of setDealers *)

\* Both handlers hand setDealers an updater (prev) => ...; an updater stays
\* queued until the component renders again.  A handler called before that
\* render closes over the values of the last render: dealers is the rendered
\* list and pending holds the updaters issued since.  expected is the list
\* that results when every mutation is applied, in issue order, to the result
\* of the one before it.

\* the updater queued by markTaskComplete or advanceStage
Updater(op, id, taskId) == [op |-> op, id |-> id, task |-> taskId]

\* calling a queued updater with prev
ApplyUpdater(prev, u) ==
  IF u.op = "toggle" THEN markTaskComplete(prev, u.id, u.task)
  ELSE advanceStage(prev, u.id)

\* variant: the handlers compute the new list from the rendered list
\* (setDealers(dealers.map(...))), so the last queued value wins
ApplyQueueStale(state, queue) ==
  IF queue = <<>> THEN state ELSE ApplyUpdater(state, queue[Len(queue)])

\* processing the queue at render: each updater gets the result of the one
\* before it as prev
ApplyQueue(state, queue) ==
  LET result[k \in 0..Len(queue)] ==
        IF k = 0 THEN state ELSE ApplyUpdater(result[k - 1], queue[k])
  IN  result[Len(queue)]

\* setSelectedDealerId, taking effect at a render of its own
BatchSelect(id) ==
  /\ pending = <<>>
  /\ selectedDealerId' = id
  /\ UNCHANGED <<dealers, activeTabIndex, advanceCalls, last, scenario>>
  /\ UNCHANGED batchVars

\* markTaskComplete(taskId) called from the handlers of the last render
BatchMarkTaskComplete(taskId) ==
  /\ issued < MaxIssued
  /\ pending' = Append(pending, Updater("toggle",
                                        selectedDealerIdOf(dealers, selectedDealerId),
                                        taskId))
  /\ expected' = markTaskComplete(expected,
                                  selectedDealerIdOf(expected, selectedDealerId),
                                  taskId)
  /\ issued' = issued + 1
  /\ UNCHANGED <<dealers, selectedDealerId, activeTabIndex, advanceCalls, last,
                 scenario, flushed>>

\* advanceStage(dealerId) called from the handlers of the last render
BatchAdvanceStage(dealerId) ==
  /\ issued < MaxIssued
  /\ pending' = Append(pending, Updater("advance", dealerId, NoTaskId))
  /\ expected' = advanceStage(expected, dealerId)
  /\ issued' = issued + 1
  /\ UNCHANGED <<dealers, selectedDealerId, activeTabIndex, advanceCalls, last,
                 scenario, flushed>>

\* the render that processes the queued updaters
Render ==
  /\ pending # <<>>
  /\ dealers' = ApplyQueue(dealers, pending)
  /\ pending' = <<>>
  /\ flushed' = Len(pending)
  /\ UNCHANGED <<selectedDealerId, activeTabIndex, advanceCalls, last, scenario,
                 expected, issued>>

NextBatch ==
  \/ \E id \in DealerIds : BatchSelect(id)
  \/ \E taskId \in TaskIds : BatchMarkTaskComplete(taskId)
  \/ \E dealerId \in DealerIds : BatchAdvanceStage(dealerId)
  \/ Render

SpecBatch == Init /\ [][NextBatch]_vars

----------------------------------------------------------------------------
(* Properties *)

LastStage == StageKeys[NumStages]

\* the step is advanceStage(id) and id is the id of the dealer at position d
AdvanceOn(id, d) ==
  /\ last'.op = "advance"
  /\ last'.dealer = d
  /\ d = FindDealer(dealers, id)
  /\ d # 0
  /\ AdvanceStage(id)

\* the step is markTaskComplete(taskId), resolved to the dealer at position d
ToggleOn(taskId, d) ==
  /\ last'.op = "toggle"
  /\ last'.dealer = d
  /\ d = selectedDealer(dealers, selectedDealerId)
  /\ d # 0
  /\ last'.task = FindTask(dealers[d].tasks, taskId)
  /\ MarkTaskComplete(taskId)

\* C1: every dealer's progress is within [0, 100] in every reachable state.
C1_ProgressBounds ==
  \A i \in DOMAIN dealers : dealers[i].progress >= 0 /\ dealers[i].progress <= 100

\* a toggle of a task has clamped its dealer at 100 after that dealer was
\* advanced
C1_Witness ==
  /\ last.op = "toggle"
  /\ last.dealer # 0
  /\ last.task # 0
  /\ dealers[last.dealer].progress = 100
  /\ advanceCalls[last.dealer] > 0

\* C2: right after advanceStage on an existing dealer its progress is
\* min(95, previous progress + 12), hence at most 95, terminal stage included.
C2_AdvanceCeiling ==
  [][\A id \in DealerIds : \A d \in DOMAIN dealers :
       AdvanceOn(id, d) =>
         /\ dealers'[d].progress = (IF dealers[d].progress + 12 < 95
                                    THEN dealers[d].progress + 12 ELSE 95)
         /\ dealers'[d].progress <= 95]_vars

\* advanceStage has acted on a dealer that was already at the last stage
\* and left it at the ceiling
C2_Witness ==
  /\ last.op = "advance"
  /\ last.dealer # 0
  /\ last.from = LastStage
  /\ dealers[last.dealer].progress = 95

\* C3: the toggle that makes all N >= 1 tasks of a dealer completed sets its
\* progress to min(100, previous progress + 8); a toggle that reverts one task
\* of a fully completed dealer to in-progress leaves its progress unchanged.
C3_Ratchet ==
  [][\A taskId \in TaskIds : \A d \in DOMAIN dealers :
       ToggleOn(taskId, d) =>
         /\ ( /\ Len(dealers[d].tasks) >= 1
              /\ ~AllCompleted(dealers[d].tasks)
              /\ AllCompleted(dealers'[d].tasks) )
            => dealers'[d].progress = (IF dealers[d].progress + 8 < 100
                                       THEN dealers[d].progress + 8 ELSE 100)
         /\ ( /\ Len(dealers[d].tasks) >= 1
              /\ AllCompleted(dealers[d].tasks)
              /\ \E k \in DOMAIN dealers[d].tasks :
                   dealers'[d].tasks[k].status = "in-progress" )
            => dealers'[d].progress = dealers[d].progress]_vars

\* a task was reverted right after the toggle that completed the task list,
\* and the dealer still has the progress that toggle granted
C3_Witness ==
  /\ last.op = "toggle"
  /\ last.ratchet = "reverted"
  /\ advanceCalls[last.dealer] = 0
  /\ dealers[last.dealer].progress = 18

\* C4: advanceStage on a dealer at the last stage leaves its status unchanged,
\* applies the clamped progress increment and prepends one note.
C4_TerminalIdempotence ==
  [][\A id \in DealerIds : \A d \in DOMAIN dealers :
       (AdvanceOn(id, d) /\ dealers[d].status = LastStage) =>
         /\ dealers'[d].status = dealers[d].status
         /\ dealers'[d].progress = (IF dealers[d].progress + 12 < 95
                                    THEN dealers[d].progress + 12 ELSE 95)
         /\ Len(dealers'[d].notes) >= 1
         /\ Len(dealers'[d].notes) = (IF Len(dealers[d].notes) + 1 < 4
                                      THEN Len(dealers[d].notes) + 1 ELSE 4)
         /\ dealers'[d].notes[1][1] = "Advanced from "
         /\ \A k \in 2..Len(dealers'[d].notes) :
              dealers'[d].notes[k] = dealers[d].notes[k - 1]]_vars

\* advanceStage has acted at least twice on a dealer at the last stage
C4_Witness ==
  /\ last.op = "advance"
  /\ last.dealer # 0
  /\ last.from = LastStage
  /\ dealers[last.dealer].status = LastStage
  /\ Len(dealers[last.dealer].notes) >= 2
  /\ dealers[last.dealer].notes[2][2] = LastStage

\* C5: after advanceStage a dealer's note list has at most 4 entries, the
\* note of the latest call first, the earlier notes behind it in their order,
\* the oldest evicted on overflow.
C5_NoteCap ==
  /\ [][\A id \in DealerIds : \A d \in DOMAIN dealers :
          AdvanceOn(id, d) =>
            LET old == dealers[d].notes
                new == dealers'[d].notes
            IN  /\ Len(new) <= 4
                /\ Len(new) = (IF Len(old) + 1 < 4 THEN Len(old) + 1 ELSE 4)
                /\ new[1] = AdvanceNote(dealers[d].status,
                                        StageLabels[StageIndex(dealers'[d].status)])
                /\ \A k \in 2..Len(new) : new[k] = old[k - 1]]_vars
  /\ [](\A i \in DOMAIN dealers : advanceCalls[i] >= 1 => Len(dealers[i].notes) <= 4)

\* two calls on the dealer seeded with three notes: the list is full, the
\* oldest seed note is gone and the other two are last
C5_Witness ==
  /\ last.op = "advance"
  /\ last.dealer = 2
  /\ advanceCalls[2] = 2
  /\ Len(dealers[2].notes) = 4
  /\ dealers[2].notes[3] = <<"note-a">>
  /\ dealers[2].notes[4] = <<"note-b">>

\* C6: advanceStage with an id that matches no dealer leaves the dealer list
\* unchanged by value.
C6_AdvanceUnknownDealer ==
  [][\A id \in DealerIds :
       (last'.op = "advance" /\ FindDealer(dealers, id) = 0 /\ AdvanceStage(id))
         => dealers' = dealers]_vars

\* advanceStage was called with an id of no dealer after the list had changed
C6_Witness ==
  /\ last.op = "advance"
  /\ last.dealer = 0
  /\ \E i \in DOMAIN dealers : advanceCalls[i] > 0

C8_ToggleUnknownTask ==
  [][\A taskId \in TaskIds : \A d \in DOMAIN dealers :
       (ToggleOn(taskId, d) /\ FindTask(dealers[d].tasks, taskId) = 0)
         => dealers' = dealers]_vars

\* C9: a toggled task goes pending -> completed, in-progress -> completed,
\* completed -> in-progress; a task that is not pending never becomes pending;
\* a task's status changes only in markTaskComplete with that task's id on
\* the dealer that owns it.
C9_TaskLifecycle ==
  [][/\ \A taskId \in TaskIds : \A d \in DOMAIN dealers :
          ToggleOn(taskId, d) =>
            \A k \in DOMAIN dealers[d].tasks :
              dealers[d].tasks[k].id = taskId =>
                /\ dealers[d].tasks[k].status = "pending"
                     => dealers'[d].tasks[k].status = "completed"
                /\ dealers[d].tasks[k].status = "in-progress"
                     => dealers'[d].tasks[k].status = "completed"
                /\ dealers[d].tasks[k].status = "completed"
                     => dealers'[d].tasks[k].status = "in-progress"
     /\ \A i \in DOMAIN dealers :
          /\ DOMAIN dealers'[i].tasks = DOMAIN dealers[i].tasks
          /\ \A k \in DOMAIN dealers[i].tasks :
               /\ dealers[i].tasks[k].status # "pending"
                    => dealers'[i].tasks[k].status # "pending"
               /\ dealers'[i].tasks[k].status # dealers[i].tasks[k].status
                    => ToggleOn(dealers[i].tasks[k].id, i)]_vars

\* a completed task has been toggled back to in-progress while the other
\* task of the dealer is still pending
C9_Witness ==
  /\ last.op = "toggle"
  /\ last.dealer = 1
  /\ last.task # 0
  /\ last.from = "completed"
  /\ dealers[1].tasks[last.task].status = "in-progress"
  /\ \E k \in DOMAIN dealers[1].tasks : dealers[1].tasks[k].status = "pending"

\* C10: advanceStage moves a dealer at catalog position i to position
\* min(i + 1, last); a step that changes a status moves it forward by exactly
\* one stage; after NumStages - 1 calls a dealer is at the last stage for good.
C10_StageOrder ==
  /\ [][/\ \A id \in DealerIds : \A d \in DOMAIN dealers :
             AdvanceOn(id, d) =>
               /\ StageIndex(dealers[d].status) >= 1
               /\ StageIndex(dealers'[d].status) =
                    (IF StageIndex(dealers[d].status) + 1 < NumStages
                     THEN StageIndex(dealers[d].status) + 1 ELSE NumStages)
        /\ \A i \in DOMAIN dealers :
             dealers'[i].status # dealers[i].status =>
               StageIndex(dealers'[i].status) = StageIndex(dealers[i].status) + 1]_vars
  /\ [](\A i \in DOMAIN dealers :
          advanceCalls[i] >= NumStages - 1 => dealers[i].status = LastStage)

\* the dealer seeded at the first stage has been advanced once more than
\* there are stages to go, and is at the last stage
C10_Witness ==
  /\ last.op = "advance"
  /\ last.dealer = 1
  /\ last.from = LastStage
  /\ advanceCalls[1] = NumStages
  /\ dealers[1].status = LastStage

\* C11: the stage partition has one bucket per catalog stage in catalog
\* order; a bucket holds exactly the dealers whose status is its stage key, in
\* their order in the dealer list; every dealer is in exactly one bucket, so
\* the buckets together are a permutation of the list; every status is a
\* stage key.
C11_Partition ==
  LET buckets == pipelineByStage(dealers)
      \* position in the dealer list of the k-th dealer of bucket s
      pos(s, k) == FindDealer(dealers, buckets[s].dealers[k].id)
  IN  /\ DOMAIN buckets = 1..NumStages
      /\ \A i \in DOMAIN dealers : \E s \in 1..NumStages : dealers[i].status = StageKeys[s]
      /\ \A s \in 1..NumStages :
           /\ buckets[s].stage = StageKeys[s]
           /\ \A k \in DOMAIN buckets[s].dealers :
                /\ pos(s, k) # 0
                /\ buckets[s].dealers[k] = dealers[pos(s, k)]
                /\ dealers[pos(s, k)].status = StageKeys[s]
                /\ \A j \in 1..(k - 1) : pos(s, j) < pos(s, k)
      /\ \A i \in DOMAIN dealers :
           Cardinality({ s \in 1..NumStages :
                           \E k \in DOMAIN buckets[s].dealers :
                             buckets[s].dealers[k].id = dealers[i].id }) = 1
      /\ \A i \in DOMAIN dealers :
           \A s \in 1..NumStages :
             dealers[i].status = StageKeys[s]
               => \E k \in DOMAIN buckets[s].dealers : buckets[s].dealers[k] = dealers[i]

\* both dealers have been advanced into the same bucket, in list order, and
\* every other bucket is empty
C11_Witness ==
  /\ last.op = "advance"
  /\ advanceCalls[1] > 0
  /\ \E s \in 1..NumStages :
       /\ Len(pipelineByStage(dealers)[s].dealers) = 2
       /\ pipelineByStage(dealers)[s].dealers[1].id = "dealer-1"
       /\ pipelineByStage(dealers)[s].dealers[2].id = "dealer-2"
       /\ \A r \in 1..NumStages : r # s => pipelineByStage(dealers)[r].dealers = <<>>

\* C13: from the seed dealer at New with progress 10 and two pending tasks,
\* toggling task-1 completes it and leaves progress 10; toggling task-2 then
\* completes it and makes progress 18; advanceStage then makes the status
\* Discovery, progress 30 and puts exactly one new note in front of the notes.
C13_Scenario ==
  LET seed == (CHOOSE ds \in SeedDealers : TRUE)[1]
      D == dealers[1]
  IN  /\ scenario = "seed" => D = seed
      /\ scenario = "toggled-1" =>
           /\ D.tasks[1].status = "completed"
           /\ D.tasks[2].status = "pending"
           /\ D.progress = 10
           /\ D.status = "New"
      /\ scenario = "toggled-2" =>
           /\ D.tasks[1].status = "completed"
           /\ D.tasks[2].status = "completed"
           /\ D.progress = 18
           /\ D.status = "New"
      /\ scenario = "advanced" =>
           /\ D.status = "Discovery"
           /\ D.progress = 30
           /\ D.tasks[1].status = "completed"
           /\ D.tasks[2].status = "completed"
           /\ Len(D.notes) = Len(seed.notes) + 1
           /\ D.notes[1][1] = "Advanced from "
           /\ Tail(D.notes) = seed.notes

\* the three steps have been made, on a seed dealer that fits the scenario
C13_Witness ==
  LET seed == (CHOOSE ds \in SeedDealers : TRUE)[1]
  IN  /\ scenario = "advanced"
      /\ last.op = "advance"
      /\ seed.status = "New"
      /\ seed.progress = 10
      /\ Len(seed.tasks) = 2
      /\ \A k \in DOMAIN seed.tasks : seed.tasks[k].status = "pending"

\* C12: mutations issued back to back, before the view renders again, are
\* each applied to the result of the previous one: once the queue is
\* processed the dealer list is the sequential composition of all mutations
\* issued, in issue order.
C12_Serialized ==
  pending = <<>> => dealers = expected

\* one render has processed a toggle of dealer-1 and an advance of dealer-2
\* that were queued together, and both took effect
C12_Witness ==
  LET seed == CHOOSE ds \in SeedDealers : TRUE
  IN  /\ pending = <<>>
      /\ flushed >= 2
      /\ issued = flushed
      /\ dealers[1].tasks # seed[1].tasks
      /\ dealers[2].status # seed[2].status

\* C14: the velocity is the mean of the progress values of all dealers of
\* the list rounded to the nearest integer, lies in [0, 100], does not depend
\* on the order of the dealers; the rounded mean of no value is 0, of
\* [40, 60, 80] is 60 and of [100] is 100.
C14_Velocity ==
  LET n == Len(dealers)
      total == SumSeq([i \in DOMAIN dealers |-> dealers[i].progress])
      v == velocity(dealers)
      reversed == [i \in DOMAIN dealers |-> dealers[n + 1 - i]]
  IN  /\ v >= 0 /\ v <= 100
      /\ n > 0 => /\ 2 * (v * n - total) <= n
                  /\ 2 * (total - v * n) <= n
      /\ velocity(reversed) = v
      /\ velocity(<<>>) = 0
      /\ calculateStageDistribution(<<40, 60, 80>>) = 60
      /\ calculateStageDistribution(<<>>) = 0
      /\ calculateStageDistribution(<<100>>) = 100

\* after a mutation the dealers differ in progress and their mean falls
\* between two integers
C14_Witness ==
  /\ last.op \in {"toggle", "advance"}
  /\ dealers[1].progress # dealers[2].progress
  /\ (dealers[1].progress + dealers[2].progress) % 2 = 1
  /\ 2 * velocity(dealers) = dealers[1].progress + dealers[2].progress + 1

\* C15: the note prepended by advanceStage is "Advanced from {old label} to
\* {new label} with automated readiness validation.", both labels taken from
\* the catalog's labels.
C15_NoteText ==
  [][\A id \in DealerIds : \A d \in DOMAIN dealers :
       AdvanceOn(id, d) =>
         dealers'[d].notes[1] =
           << "Advanced from ", StageLabels[StageIndex(dealers[d].status)],
              " to ", StageLabels[StageIndex(dealers'[d].status)],
              " with automated readiness validation." >>]_vars

\* C16: markTaskComplete changes at most the status of the task with the given
\* id and the progress of the dealer it resolves to, and leaves that dealer's
\* status and notes alone; advanceStage changes only status, progress and
\* notes of the dealer with the given id and leaves its tasks alone; every
\* other dealer is unchanged; number, order and ids of dealers and of their
\* tasks never change; selecting a dealer or a tab leaves the list unchanged.
C16_Frame ==
  [][/\ dealers' # dealers =>
          /\ DOMAIN dealers' = DOMAIN dealers
          /\ \A i \in DOMAIN dealers :
               /\ dealers'[i].id = dealers[i].id
               /\ DOMAIN dealers'[i].tasks = DOMAIN dealers[i].tasks
               /\ \A k \in DOMAIN dealers[i].tasks :
                    dealers'[i].tasks[k].id = dealers[i].tasks[k].id
     /\ \A taskId \in TaskIds : \A d \in DOMAIN dealers :
          ToggleOn(taskId, d) =>
            /\ \A i \in DOMAIN dealers : i # d => dealers'[i] = dealers[i]
            /\ dealers'[d].status = dealers[d].status
            /\ dealers'[d].notes = dealers[d].notes
            /\ \A k \in DOMAIN dealers[d].tasks :
                 dealers[d].tasks[k].id # taskId
                   => dealers'[d].tasks[k] = dealers[d].tasks[k]
            /\ Cardinality({ k \in DOMAIN dealers[d].tasks :
                               dealers'[d].tasks[k] # dealers[d].tasks[k] }) <= 1
     /\ \A id \in DealerIds :
          ( /\ last'.op = "advance"
            /\ last'.dealer = FindDealer(dealers, id)
            /\ AdvanceStage(id) ) =>
            \A i \in DOMAIN dealers :
              /\ dealers[i].id # id => dealers'[i] = dealers[i]
              /\ dealers'[i].tasks = dealers[i].tasks
     /\ ( \/ last'.op \in {"select", "tab"}
          \/ selectedDealerId' # selectedDealerId
          \/ activeTabIndex' # activeTabIndex ) => dealers' = dealers]_vars

\* a task of dealer-1 has been toggled after dealer-2 was advanced
C16_Witness ==
  /\ last.op = "toggle"
  /\ last.dealer = 1
  /\ last.task # 0
  /\ advanceCalls[2] > 0
  /\ advanceCalls[1] = 0

\* C17: no markTaskComplete or advanceStage call leaves a dealer's progress
\* lower than it was before the call.
C17_ProgressMonotone ==
  [][\A i \in DOMAIN dealers : dealers'[i].progress >= dealers[i].progress]_vars

\* C18: every markTaskComplete call after which all tasks of the resolved
\* dealer are completed adds 8 (clamped at 100) to its progress, every other
\* call leaves its progress unchanged; the bonus is given again each time the
\* dealer re-enters the all-completed state.
C18_BonusEveryTime ==
  [][\A taskId \in TaskIds : \A d \in DOMAIN dealers :
       ToggleOn(taskId, d) =>
         dealers'[d].progress =
           (IF \A k \in DOMAIN dealers'[d].tasks : dealers'[d].tasks[k].status = "completed"
            THEN (IF dealers[d].progress + 8 < 100 THEN dealers[d].progress + 8 ELSE 100)
            ELSE dealers[d].progress)]_vars

\* toggling alone, with no advanceStage call, has driven dealer-1 from 10 to 100
C18_Witness ==
  /\ last.op = "toggle"
  /\ last.dealer = 1
  /\ last.task # 0
  /\ advanceCalls[1] = 0
  /\ dealers[1].progress = 100

====
